---- MODULE Spec2Model ----
\* Model of K-webserver/locust/locustfile.py: one virtual user (a Locust
\* HttpUser instance) of one of the four user classes, its attributes, and the
\* requests its tasks issue together with the classification of each response.
\*
\* Units: the source computes timestamps in microseconds
\* (int(time.time() * 1000000)); Python integers are unbounded, TLC's are
\* 32 bit, so the model counts time in seconds (every source constant
\* divided by 10^6, all of them multiples of 10^6).
EXTENDS Integers, Sequences, FiniteSets, TLC

VARIABLES
    cls,       \* the user class the session was instantiated from
    started,   \* TRUE once on_start has run
    self,      \* the instance attributes set by on_start (a record)
    task,      \* name of the task that ran last ("" if none yet)
    requests   \* the requests issued by that task, in order, each with the
               \* response received and the calls made on the response object

vars == <<cls, started, self, task, requests>>

----------------------------------------------------------------------------
\* Bounds of the model

\* random.choice(xs) is drawn among the first MaxPick entries of xs
MaxPick == 2
\* length of the longest 'posts' list the server returns
MaxPosts == 4
\* session_posts is followed up to this length
MaxSessionPosts == 3

----------------------------------------------------------------------------
\* Literal test data of the three on_start methods

\* KWebappAPIUser.on_start: self.sample_pubkeys (22 entries)
KWebappAPIUser_sample_pubkeys ==
    <<
       "03edeacd90b1fe7ee696e21ddd81083fd44a245642a4a5cade455c465c9ce80e1b",
       "032c1de780180d4e5100e17e304996284d187fdeb5ac837f32c04d62b73aaefe18",
       "03f5a6fde99bc8e9ab6c6c92a08bafe622e533c7dad7f4eec2edef35baaa5a9bc6",
       "0280bc073a2f016dbd6df25c4e843a5f801d3d940fc384d79f8103e42297be5986",
       "020bc57bc1fb10751dc18282931a07cd6ace772217f0c4d843bc2b1a71670d7de1",
       "03b1f9ed63976b28ad4e648b9da672679bd27895def79159f372eeea30df45abf7",
       "0367ff507f241fa0b4e90779952d7ed36731a77021db0982fbabd0fbfa036bd8ee",
       "030fd8f1b20f57abf99d61c95db9a149c5a9e0502817ba257d6adf32d0a4708ebe",
       "02405d3f51e96e18ebe1894242551baf10edd5307721b761a8a1e5d3a8df8817f9",
       "0327900e8385a066dff50e90c1851a39ed107cf90897b6fad0da63020bb8327fbd",
       "02dd3235798995ebc348613b7403d5bfbc277b3e3b7414ce3e166f4adacff7f532",
       "038f29db80e35e9086adc7af56383625bb7dc5cf3690bc092dcd210039db3d825d",
       "02bddf1f69dc78dcc8c656a7d9a8bc65256e26bbac970ef2c23e2f5e0982112d65",
       "033d01709a02bf78f95e09cd00ba93ad8fb7c8ac11e6d3f871a11062eeb2aa8cd8",
       "038ea9ca1fe1f22cc8074cc576e0870cf50f773c90c1f4830fd6ba6f60771cc1f3",
       "02218b3732df2353978154ec5323b745bce9520a5ed506a96de4f4e3dad20dc44f",
       "03f56f6ad1c1166e330fb2897ae60afcb25afa10006212cfee24264c04d21bce60",
       "0223ca2161f47a142e77f85c398b839a65b8c799e22968d3214a25aee616bd00b6",
       "0327c058e497477d175674381a30ff36e5309f7c0f5bc9dc683506de6549e40562",
       "024d3fe4f26cd652d91f4173c7517af9c0254de833cc25924fc2d475768008fd15",
       "0207e2bd14de5a9e7e39b00437cfe58ad64af128678485029b5fe304b841d1b076",
       "03466b99d7ca36044fdc1c486d0c40c1ecf024f54554377fb005a40b16b08637cc"
    >>

\* KWebappAPIUser.on_start: self.sample_post_ids (40 entries)
KWebappAPIUser_sample_post_ids ==
    <<
       "40dfcbfff3ad1c8a0c80bfd8bddf574b75a796d644c4f508ae63f7e47ed3d2bf",
       "7c0b5d4d995eb86b076ab787a96c9d1180219a7dfc8de419b7dd0958e02723d9",
       "b1c455ffdbf96f8199641a0ef42d96f55d7261b4abd3c28d7eb384742e098e82",
       "0e5b63242a970cc5fb567dd71c223a62a74507821fc1b9fe5eb3df9c258ffce8",
       "996bc414134275c4d8638e339f1a30e88da4f495219ae7494ddafd2e413d5c3a",
       "a9ef66ac8fec30431547a2c3e71fbbf7a04f859f5800177cd0f93abc69b10ae3",
       "7401c334fed3383d73a96f3d46c2cbad93d70798f469eaf93e985994fcd805dc",
       "e0893f1f8d990f2672a5d30c90c3bc0982899fd645a71785f268161d8e1ab8c0",
       "e6ff72cc7958f5ef6beaf5660b6ba95787758a2d3fe405adf9864ee3eadd37d0",
       "631857e3ad73a2e5c05b193b56fcd9d9c89dc40daad06d0e4b1f7128d660f4d0",
       "8035e96070ec133288f8be16b2885c23740ccaf2558d4d5d868256814dd23aff",
       "2c7f16c10ecffe3f845cfa0e06fd5cdceb87f30c9938ef9ca24918b2d5b96cb6",
       "9d2ffa4aab2ecd054d3ed2d760aa800fc35c028a064595ebd8bbd907f74a6fcf",
       "e26b14bfde54bbed157aeb85d358e22c8e6fb21d5503cf86b63dc97a246df85b",
       "889bb1cc99260789e570be64513ff4afa65982eaa920ddb3ebc7ca58f09a38fe",
       "c8f371509f38638a05aab45bef069574736b38f837ed2c6eacfed59c099e3f8c",
       "e1b110094f672b02ceec8a2949cdeb1ceaf498422b91d2774b1b9e127e41cde4",
       "91a489d1c0202a49b830bf3a0ed6570d7a1b3051e16397d5052b99bd4d51d805",
       "239605f8e78044793cad47f6dc36df7a991152c45469cd4a4a0d383dc55dcb6d",
       "17088141aba4e07dccb515dfbda3106480d7c65b64e2ba7ff70f9e87715280f6",
       "e3bf67aa5b1aa53096b742afa382fcc60c370b4cf8d3942c423247d9925cebeb",
       "6ee1dc36863c391e02ec290445fed2c36f534d937d84acd74c7495ead78b4874",
       "85bc33d5e5daf886158f796eaea614894f730f212e339edbe92962714fa793fd",
       "1fde0de5ff86edac61e09fa2f1588f7ff140ee036a500a6f6ccbadb4304d38a5",
       "62ae89ffd92ffabf040d820cd00f23fa6c1bc2ad02ddd630a71ba5244da19862",
       "17a9c41ad5e935a7e0448bfbfe2ec779d35cdefb785d4e0a5958733d9ddfeae2",
       "f3e9e85eb3c6e594bc26d4b83b31214332af7b26a0bb15849300a8d172346139",
       "7bd455cc044a035b1cc7ee911207cbcda692ee3b453e48710ed626190e384688",
       "a295cf6cee11a75b7f32a376d3c6c918d6b64668c3b4665df2bcf5bde21627f0",
       "634c4cee207a386602bafcd7db95c1a77f14fc322c89e21fc33d2d641e714b05",
       "5e37c2ac01628876bc368530d625ee7d9622026e7e494707d1e3024bd26b5d4b",
       "4a5bc584d79539a225e2916cb47cbbf7e54b4ff4244f640a3acd43b4ec79f3f7",
       "06448fcb7dfb7a6e68e7b421302fac2c2d9c5d678127f9e746e9047c3ca455b1",
       "7b62f663652ae758d1b2daa7f6ee8b1e260dc65ad6bdf6f233c2452f6cd31066",
       "7ab4535d619ab06095825d312221227769ac856d8e8dc3ed7c88829052567730",
       "fdd2788f42aa3903fd9f4b86f2ae32162f9da7be2dcc4760aba69d65139c9bac",
       "34d6b4d2ed35cc4cf010809985a681f403555e3e3704edca6135a5b9d7771171",
       "df5f1d79531f75e33fa9c534c1362fc6d42f561854f29c69f4893fa73f03560d",
       "855bed8163845d91bb12fa724f5e9d14a06769c6b38a26acaf2be406bfdc68ad",
       "12eb841d2c281c6c3eb6c3c09fbe4b161d10e3c8a321c06e7b859b8dd1d43168"
    >>

\* KWebappAPIUser.on_start: self.users_with_follows (5 entries)
KWebappAPIUser_users_with_follows ==
    <<
       "0367ff507f241fa0b4e90779952d7ed36731a77021db0982fbabd0fbfa036bd8ee",
       "038ea9ca1fe1f22cc8074cc576e0870cf50f773c90c1f4830fd6ba6f60771cc1f3",
       "03edeacd90b1fe7ee696e21ddd81083fd44a245642a4a5cade455c465c9ce80e1b",
       "02299c80be550c23bfe10954cf7f3c62a9f8e9af45df3a62ab665633a5e8b32c87",
       "03f5a6fde99bc8e9ab6c6c92a08bafe622e533c7dad7f4eec2edef35baaa5a9bc6"
    >>

\* KWebappHeavyLoadUser.on_start: self.sample_pubkeys (22 entries)
KWebappHeavyLoadUser_sample_pubkeys ==
    <<
       "03edeacd90b1fe7ee696e21ddd81083fd44a245642a4a5cade455c465c9ce80e1b",
       "032c1de780180d4e5100e17e304996284d187fdeb5ac837f32c04d62b73aaefe18",
       "03f5a6fde99bc8e9ab6c6c92a08bafe622e533c7dad7f4eec2edef35baaa5a9bc6",
       "0280bc073a2f016dbd6df25c4e843a5f801d3d940fc384d79f8103e42297be5986",
       "020bc57bc1fb10751dc18282931a07cd6ace772217f0c4d843bc2b1a71670d7de1",
       "02b1c109f322e0ee42c75434cd2c45c1e2e6dd09ad8127dbf3f0d9bb25ddf15f6b",
       "03e5a3ad26b8df8e67e0b23b8e1e70a4adc2b05a6a6d3f3c47ca47c53e97f4b741",
       "02e7c8a2e8e9c0c4a2b4a1e2d1c3b4a5e6f7c8d9e0a1b2c3d4e5f6a7b8c9d0e1f2",
       "03a1b2c3d4e5f6a7b8c9d0e1f2a3b4c5d6e7f8a9b0c1d2e3f4a5b6c7d8e9f0a1b2",
       "0367ff507f241fa0b4e90779952d7ed36731a77021db0982fbabd0fbfa036bd8ee",
       "038ea9ca1fe1f22cc8074cc576e0870cf50f773c90c1f4830fd6ba6f60771cc1f3",
       "02f1e2d3c4b5a6978695a4b3c2d1e0f9e8d7c6b5a4938271605f4e3d2c1b0a9f8e",
       "03c1d2e3f4a5b6c7d8e9f0a1b2c3d4e5f6a7b8c9d0e1f2a3b4c5d6e7f8a9b0c1d2",
       "02d1e2f3a4b5c6d7e8f9a0b1c2d3e4f5a6b7c8d9e0f1a2b3c4d5e6f7a8b9c0d1e2",
       "03b1c2d3e4f5a6b7c8d9e0f1a2b3c4d5e6f7a8b9c0d1e2f3a4b5c6d7e8f9a0b1c2",
       "02a1b2c3d4e5f6a7b8c9d0e1f2a3b4c5d6e7f8a9b0c1d2e3f4a5b6c7d8e9f0a1b2",
       "03d1e2f3a4b5c6d7e8f9a0b1c2d3e4f5a6b7c8d9e0f1a2b3c4d5e6f7a8b9c0d1e2",
       "02c1d2e3f4a5b6c7d8e9f0a1b2c3d4e5f6a7b8c9d0e1f2a3b4c5d6e7f8a9b0c1d2",
       "03e1f2a3b4c5d6e7f8a9b0c1d2e3f4a5b6c7d8e9f0a1b2c3d4e5f6a7b8c9d0e1f2",
       "02e1f2a3b4c5d6e7f8a9b0c1d2e3f4a5b6c7d8e9f0a1b2c3d4e5f6a7b8c9d0e1f2",
       "03f1a2b3c4d5e6f7a8b9c0d1e2f3a4b5c6d7e8f9a0b1c2d3e4f5a6b7c8d9e0f1a2",
       "02f1a2b3c4d5e6f7a8b9c0d1e2f3a4b5c6d7e8f9a0b1c2d3e4f5a6b7c8d9e0f1a2"
    >>

\* KWebappHeavyLoadUser.on_start: self.sample_post_ids (40 entries)
KWebappHeavyLoadUser_sample_post_ids ==
    <<
       "40dfcbfff3ad1c8a0c80bfd8bddf574b75a796d644c4f508ae63f7e47ed3d2bf",
       "7c0b5d4d995eb86b076ab787a96c9d1180219a7dfc8de419b7dd0958e02723d9",
       "b1c455ffdbf96f8199641a0ef42d96f55d7261b4abd3c28d7eb384742e098e82",
       "0e5b63242a970cc5fb567dd71c223a62a74507821fc1b9fe5eb3df9c258ffce8",
       "89c3a29ff0c89bef82e2e6c8c4a5f3b7d1e9f4a2b8c6d3e7f1a5b9c2d8e4f7a1b6",
       "1a2b3c4d5e6f7a8b9c0d1e2f3a4b5c6d7e8f9a0b1c2d3e4f5a6b7c8d9e0f1a2b3",
       "2b3c4d5e6f7a8b9c0d1e2f3a4b5c6d7e8f9a0b1c2d3e4f5a6b7c8d9e0f1a2b3c4",
       "3c4d5e6f7a8b9c0d1e2f3a4b5c6d7e8f9a0b1c2d3e4f5a6b7c8d9e0f1a2b3c4d5",
       "4d5e6f7a8b9c0d1e2f3a4b5c6d7e8f9a0b1c2d3e4f5a6b7c8d9e0f1a2b3c4d5e6",
       "5e6f7a8b9c0d1e2f3a4b5c6d7e8f9a0b1c2d3e4f5a6b7c8d9e0f1a2b3c4d5e6f7",
       "6f7a8b9c0d1e2f3a4b5c6d7e8f9a0b1c2d3e4f5a6b7c8d9e0f1a2b3c4d5e6f7a8",
       "7a8b9c0d1e2f3a4b5c6d7e8f9a0b1c2d3e4f5a6b7c8d9e0f1a2b3c4d5e6f7a8b9",
       "8b9c0d1e2f3a4b5c6d7e8f9a0b1c2d3e4f5a6b7c8d9e0f1a2b3c4d5e6f7a8b9c0",
       "9c0d1e2f3a4b5c6d7e8f9a0b1c2d3e4f5a6b7c8d9e0f1a2b3c4d5e6f7a8b9c0d1",
       "a1b2c3d4e5f6a7b8c9d0e1f2a3b4c5d6e7f8a9b0c1d2e3f4a5b6c7d8e9f0a1b2c3",
       "b2c3d4e5f6a7b8c9d0e1f2a3b4c5d6e7f8a9b0c1d2e3f4a5b6c7d8e9f0a1b2c3d4",
       "c3d4e5f6a7b8c9d0e1f2a3b4c5d6e7f8a9b0c1d2e3f4a5b6c7d8e9f0a1b2c3d4e5",
       "d4e5f6a7b8c9d0e1f2a3b4c5d6e7f8a9b0c1d2e3f4a5b6c7d8e9f0a1b2c3d4e5f6",
       "e5f6a7b8c9d0e1f2a3b4c5d6e7f8a9b0c1d2e3f4a5b6c7d8e9f0a1b2c3d4e5f6a7",
       "f6a7b8c9d0e1f2a3b4c5d6e7f8a9b0c1d2e3f4a5b6c7d8e9f0a1b2c3d4e5f6a7b8",
       "a7b8c9d0e1f2a3b4c5d6e7f8a9b0c1d2e3f4a5b6c7d8e9f0a1b2c3d4e5f6a7b8c9",
       "b8c9d0e1f2a3b4c5d6e7f8a9b0c1d2e3f4a5b6c7d8e9f0a1b2c3d4e5f6a7b8c9d0",
       "c9d0e1f2a3b4c5d6e7f8a9b0c1d2e3f4a5b6c7d8e9f0a1b2c3d4e5f6a7b8c9d0e1",
       "d0e1f2a3b4c5d6e7f8a9b0c1d2e3f4a5b6c7d8e9f0a1b2c3d4e5f6a7b8c9d0e1f2",
       "e1f2a3b4c5d6e7f8a9b0c1d2e3f4a5b6c7d8e9f0a1b2c3d4e5f6a7b8c9d0e1f2a3",
       "f2a3b4c5d6e7f8a9b0c1d2e3f4a5b6c7d8e9f0a1b2c3d4e5f6a7b8c9d0e1f2a3b4",
       "a3b4c5d6e7f8a9b0c1d2e3f4a5b6c7d8e9f0a1b2c3d4e5f6a7b8c9d0e1f2a3b4c5",
       "b4c5d6e7f8a9b0c1d2e3f4a5b6c7d8e9f0a1b2c3d4e5f6a7b8c9d0e1f2a3b4c5d6",
       "c5d6e7f8a9b0c1d2e3f4a5b6c7d8e9f0a1b2c3d4e5f6a7b8c9d0e1f2a3b4c5d6e7",
       "d6e7f8a9b0c1d2e3f4a5b6c7d8e9f0a1b2c3d4e5f6a7b8c9d0e1f2a3b4c5d6e7f8",
       "e7f8a9b0c1d2e3f4a5b6c7d8e9f0a1b2c3d4e5f6a7b8c9d0e1f2a3b4c5d6e7f8a9",
       "f8a9b0c1d2e3f4a5b6c7d8e9f0a1b2c3d4e5f6a7b8c9d0e1f2a3b4c5d6e7f8a9b0",
       "a9b0c1d2e3f4a5b6c7d8e9f0a1b2c3d4e5f6a7b8c9d0e1f2a3b4c5d6e7f8a9b0c1",
       "b0c1d2e3f4a5b6c7d8e9f0a1b2c3d4e5f6a7b8c9d0e1f2a3b4c5d6e7f8a9b0c1d2",
       "c1d2e3f4a5b6c7d8e9f0a1b2c3d4e5f6a7b8c9d0e1f2a3b4c5d6e7f8a9b0c1d2e3",
       "d2e3f4a5b6c7d8e9f0a1b2c3d4e5f6a7b8c9d0e1f2a3b4c5d6e7f8a9b0c1d2e3f4",
       "e3f4a5b6c7d8e9f0a1b2c3d4e5f6a7b8c9d0e1f2a3b4c5d6e7f8a9b0c1d2e3f4a5",
       "f4a5b6c7d8e9f0a1b2c3d4e5f6a7b8c9d0e1f2a3b4c5d6e7f8a9b0c1d2e3f4a5b6",
       "a5b6c7d8e9f0a1b2c3d4e5f6a7b8c9d0e1f2a3b4c5d6e7f8a9b0c1d2e3f4a5b6c7",
       "b6c7d8e9f0a1b2c3d4e5f6a7b8c9d0e1f2a3b4c5d6e7f8a9b0c1d2e3f4a5b6c7d8"
    >>

\* KWebappRealisticUser.on_start: self.sample_pubkeys (22 entries)
KWebappRealisticUser_sample_pubkeys ==
    <<
       "03edeacd90b1fe7ee696e21ddd81083fd44a245642a4a5cade455c465c9ce80e1b",
       "032c1de780180d4e5100e17e304996284d187fdeb5ac837f32c04d62b73aaefe18",
       "03f5a6fde99bc8e9ab6c6c92a08bafe622e533c7dad7f4eec2edef35baaa5a9bc6",
       "0280bc073a2f016dbd6df25c4e843a5f801d3d940fc384d79f8103e42297be5986",
       "020bc57bc1fb10751dc18282931a07cd6ace772217f0c4d843bc2b1a71670d7de1",
       "02b1c109f322e0ee42c75434cd2c45c1e2e6dd09ad8127dbf3f0d9bb25ddf15f6b",
       "03e5a3ad26b8df8e67e0b23b8e1e70a4adc2b05a6a6d3f3c47ca47c53e97f4b741",
       "02e7c8a2e8e9c0c4a2b4a1e2d1c3b4a5e6f7c8d9e0a1b2c3d4e5f6a7b8c9d0e1f2",
       "03a1b2c3d4e5f6a7b8c9d0e1f2a3b4c5d6e7f8a9b0c1d2e3f4a5b6c7d8e9f0a1b2",
       "0367ff507f241fa0b4e90779952d7ed36731a77021db0982fbabd0fbfa036bd8ee",
       "038ea9ca1fe1f22cc8074cc576e0870cf50f773c90c1f4830fd6ba6f60771cc1f3",
       "02f1e2d3c4b5a6978695a4b3c2d1e0f9e8d7c6b5a4938271605f4e3d2c1b0a9f8e",
       "03c1d2e3f4a5b6c7d8e9f0a1b2c3d4e5f6a7b8c9d0e1f2a3b4c5d6e7f8a9b0c1d2",
       "02d1e2f3a4b5c6d7e8f9a0b1c2d3e4f5a6b7c8d9e0f1a2b3c4d5e6f7a8b9c0d1e2",
       "03b1c2d3e4f5a6b7c8d9e0f1a2b3c4d5e6f7a8b9c0d1e2f3a4b5c6d7e8f9a0b1c2",
       "02a1b2c3d4e5f6a7b8c9d0e1f2a3b4c5d6e7f8a9b0c1d2e3f4a5b6c7d8e9f0a1b2",
       "03d1e2f3a4b5c6d7e8f9a0b1c2d3e4f5a6b7c8d9e0f1a2b3c4d5e6f7a8b9c0d1e2",
       "02c1d2e3f4a5b6c7d8e9f0a1b2c3d4e5f6a7b8c9d0e1f2a3b4c5d6e7f8a9b0c1d2",
       "03e1f2a3b4c5d6e7f8a9b0c1d2e3f4a5b6c7d8e9f0a1b2c3d4e5f6a7b8c9d0e1f2",
       "02e1f2a3b4c5d6e7f8a9b0c1d2e3f4a5b6c7d8e9f0a1b2c3d4e5f6a7b8c9d0e1f2",
       "03f1a2b3c4d5e6f7a8b9c0d1e2f3a4b5c6d7e8f9a0b1c2d3e4f5a6b7c8d9e0f1a2",
       "02f1a2b3c4d5e6f7a8b9c0d1e2f3a4b5c6d7e8f9a0b1c2d3e4f5a6b7c8d9e0f1a2"
    >>

\* KWebappRealisticUser.on_start: self.users_with_follows (3 entries)
KWebappRealisticUser_users_with_follows ==
    <<
       "0367ff507f241fa0b4e90779952d7ed36731a77021db0982fbabd0fbfa036bd8ee",
       "038ea9ca1fe1f22cc8074cc576e0870cf50f773c90c1f4830fd6ba6f60771cc1f3",
       "03edeacd90b1fe7ee696e21ddd81083fd44a245642a4a5cade455c465c9ce80e1b"
    >>

\* KWebappRealisticUser.on_start: self.sample_post_ids (40 entries)
KWebappRealisticUser_sample_post_ids ==
    <<
       "40dfcbfff3ad1c8a0c80bfd8bddf574b75a796d644c4f508ae63f7e47ed3d2bf",
       "7c0b5d4d995eb86b076ab787a96c9d1180219a7dfc8de419b7dd0958e02723d9",
       "b1c455ffdbf96f8199641a0ef42d96f55d7261b4abd3c28d7eb384742e098e82",
       "0e5b63242a970cc5fb567dd71c223a62a74507821fc1b9fe5eb3df9c258ffce8",
       "89c3a29ff0c89bef82e2e6c8c4a5f3b7d1e9f4a2b8c6d3e7f1a5b9c2d8e4f7a1b6",
       "1a2b3c4d5e6f7a8b9c0d1e2f3a4b5c6d7e8f9a0b1c2d3e4f5a6b7c8d9e0f1a2b3",
       "2b3c4d5e6f7a8b9c0d1e2f3a4b5c6d7e8f9a0b1c2d3e4f5a6b7c8d9e0f1a2b3c4",
       "3c4d5e6f7a8b9c0d1e2f3a4b5c6d7e8f9a0b1c2d3e4f5a6b7c8d9e0f1a2b3c4d5",
       "4d5e6f7a8b9c0d1e2f3a4b5c6d7e8f9a0b1c2d3e4f5a6b7c8d9e0f1a2b3c4d5e6",
       "5e6f7a8b9c0d1e2f3a4b5c6d7e8f9a0b1c2d3e4f5a6b7c8d9e0f1a2b3c4d5e6f7",
       "6f7a8b9c0d1e2f3a4b5c6d7e8f9a0b1c2d3e4f5a6b7c8d9e0f1a2b3c4d5e6f7a8",
       "7a8b9c0d1e2f3a4b5c6d7e8f9a0b1c2d3e4f5a6b7c8d9e0f1a2b3c4d5e6f7a8b9",
       "8b9c0d1e2f3a4b5c6d7e8f9a0b1c2d3e4f5a6b7c8d9e0f1a2b3c4d5e6f7a8b9c0",
       "9c0d1e2f3a4b5c6d7e8f9a0b1c2d3e4f5a6b7c8d9e0f1a2b3c4d5e6f7a8b9c0d1",
       "a1b2c3d4e5f6a7b8c9d0e1f2a3b4c5d6e7f8a9b0c1d2e3f4a5b6c7d8e9f0a1b2c3",
       "b2c3d4e5f6a7b8c9d0e1f2a3b4c5d6e7f8a9b0c1d2e3f4a5b6c7d8e9f0a1b2c3d4",
       "c3d4e5f6a7b8c9d0e1f2a3b4c5d6e7f8a9b0c1d2e3f4a5b6c7d8e9f0a1b2c3d4e5",
       "d4e5f6a7b8c9d0e1f2a3b4c5d6e7f8a9b0c1d2e3f4a5b6c7d8e9f0a1b2c3d4e5f6",
       "e5f6a7b8c9d0e1f2a3b4c5d6e7f8a9b0c1d2e3f4a5b6c7d8e9f0a1b2c3d4e5f6a7",
       "f6a7b8c9d0e1f2a3b4c5d6e7f8a9b0c1d2e3f4a5b6c7d8e9f0a1b2c3d4e5f6a7b8",
       "a7b8c9d0e1f2a3b4c5d6e7f8a9b0c1d2e3f4a5b6c7d8e9f0a1b2c3d4e5f6a7b8c9",
       "b8c9d0e1f2a3b4c5d6e7f8a9b0c1d2e3f4a5b6c7d8e9f0a1b2c3d4e5f6a7b8c9d0",
       "c9d0e1f2a3b4c5d6e7f8a9b0c1d2e3f4a5b6c7d8e9f0a1b2c3d4e5f6a7b8c9d0e1",
       "d0e1f2a3b4c5d6e7f8a9b0c1d2e3f4a5b6c7d8e9f0a1b2c3d4e5f6a7b8c9d0e1f2",
       "e1f2a3b4c5d6e7f8a9b0c1d2e3f4a5b6c7d8e9f0a1b2c3d4e5f6a7b8c9d0e1f2a3",
       "f2a3b4c5d6e7f8a9b0c1d2e3f4a5b6c7d8e9f0a1b2c3d4e5f6a7b8c9d0e1f2a3b4",
       "a3b4c5d6e7f8a9b0c1d2e3f4a5b6c7d8e9f0a1b2c3d4e5f6a7b8c9d0e1f2a3b4c5",
       "b4c5d6e7f8a9b0c1d2e3f4a5b6c7d8e9f0a1b2c3d4e5f6a7b8c9d0e1f2a3b4c5d6",
       "c5d6e7f8a9b0c1d2e3f4a5b6c7d8e9f0a1b2c3d4e5f6a7b8c9d0e1f2a3b4c5d6e7",
       "d6e7f8a9b0c1d2e3f4a5b6c7d8e9f0a1b2c3d4e5f6a7b8c9d0e1f2a3b4c5d6e7f8",
       "e7f8a9b0c1d2e3f4a5b6c7d8e9f0a1b2c3d4e5f6a7b8c9d0e1f2a3b4c5d6e7f8a9",
       "f8a9b0c1d2e3f4a5b6c7d8e9f0a1b2c3d4e5f6a7b8c9d0e1f2a3b4c5d6e7f8a9b0",
       "a9b0c1d2e3f4a5b6c7d8e9f0a1b2c3d4e5f6a7b8c9d0e1f2a3b4c5d6e7f8a9b0c1",
       "b0c1d2e3f4a5b6c7d8e9f0a1b2c3d4e5f6a7b8c9d0e1f2a3b4c5d6e7f8a9b0c1d2",
       "c1d2e3f4a5b6c7d8e9f0a1b2c3d4e5f6a7b8c9d0e1f2a3b4c5d6e7f8a9b0c1d2e3",
       "d2e3f4a5b6c7d8e9f0a1b2c3d4e5f6a7b8c9d0e1f2a3b4c5d6e7f8a9b0c1d2e3f4",
       "e3f4a5b6c7d8e9f0a1b2c3d4e5f6a7b8c9d0e1f2a3b4c5d6e7f8a9b0c1d2e3f4a5",
       "f4a5b6c7d8e9f0a1b2c3d4e5f6a7b8c9d0e1f2a3b4c5d6e7f8a9b0c1d2e3f4a5b6",
       "a5b6c7d8e9f0a1b2c3d4e5f6a7b8c9d0e1f2a3b4c5d6e7f8a9b0c1d2e3f4a5b6c7",
       "b6c7d8e9f0a1b2c3d4e5f6a7b8c9d0e1f2a3b4c5d6e7f8a9b0c1d2e3f4a5b6c7d8"
    >>
----------------------------------------------------------------------------
\* The user classes and the environment

UserClasses ==
    {"KWebappAPIUser", "KWebappHeavyLoadUser", "KWebappRealisticUser", "WebsiteUser"}

\* the classes an instance of c is an instance of (class statements)
Bases(c) ==
    IF c = "WebsiteUser" THEN {"WebsiteUser", "KWebappAPIUser"} ELSE {c}

\* status codes the server answers with
StatusCodes == {200, 404, 500}

\* the hardcoded fallback of view_post_details
FallbackPostId ==
    "40dfcbfff3ad1c8a0c80bfd8bddf574b75a796d644c4f508ae63f7e47ed3d2bf"

\* a post id the server knows and no sample list contains
UnlistedPostId ==
    "00000000000000000000000000000000000000000000000000000000000000aa"

\* the ids the server puts into the posts of a following feed
ServerPostIds == {FallbackPostId, UnlistedPostId}

\* time.time(), in seconds
Epoch == 1793664000

Min(a, b) == IF a < b THEN a ELSE b

\* random.choice(xs)
Choice(xs) == {xs[i] : i \in 1..Min(Len(xs), MaxPick)}

\* random.randint(lo, hi): the two ends of the range
randint(lo, hi) == {lo, hi}

\* The optional 'before' parameter:
\*   if random.random() < p:
\*       params['before'] = f"{int(time.time()*1000000) - random.randint(3600000000, 86400000000)}_{random.randint(1, 1000)}"
\* <<>> when the parameter is not added, else a one-element sequence holding
\* the two numbers the f-string joins with "_". Both random numbers are drawn
\* at the low end or both at the high end of their ranges.
BeforeChoices ==
    {<<>>,
     <<[ts |-> Epoch - 3600,  n |-> 1]>>,
     <<[ts |-> Epoch - 86400, n |-> 1000]>>}

\* params with params['before'] added when it was drawn
WithBefore(params, before) ==
    IF before = <<>> THEN params ELSE params @@ [before |-> before[1]]

\* a response body nobody parses
Unread == [shape |-> "unread", posts |-> <<>>]

\* self.client.get(path, params=params, catch_response=True) together with
\* the response and the calls the with-block made on it
Get(path, params, status, body, calls) ==
    [method |-> "GET", path |-> path, params |-> params,
     status |-> status, body |-> body, calls |-> calls]

\* Only200 with the 404 branch of the tolerant tasks copied in
Only200_Accepts404(status) ==
    IF status = 200 \/ status = 404 THEN <<"success">> ELSE <<"failure">>

\* if response.status_code == 200: response.success()
\* else: response.failure(...)
Only200(status) ==
    IF status = 200 THEN <<"success">> ELSE <<"failure">>

\* Allow404 with the elif branch left out
Allow404_Rejects404(status) ==
    IF status = 200 THEN <<"success">> ELSE <<"failure">>

\* if response.status_code == 200: response.success()
\* elif response.status_code == 404: response.success()
\* else: response.failure(...)
Allow404(status) ==
    IF status = 200 THEN <<"success">>
    ELSE IF status = 404 THEN <<"success">>
    ELSE <<"failure">>

----------------------------------------------------------------------------
Init ==
    /\ cls \in UserClasses
    /\ started = FALSE
    /\ self = <<>>
    /\ task = ""
    /\ requests = <<>>

KWebappAPIUser_on_start ==
    /\ ~started
    /\ "KWebappAPIUser" \in Bases(cls)
    /\ \E pk \in Choice(KWebappAPIUser_sample_pubkeys) :
          self' = [sample_pubkeys     |-> KWebappAPIUser_sample_pubkeys,
                   sample_post_ids    |-> KWebappAPIUser_sample_post_ids,
                   users_with_follows |-> KWebappAPIUser_users_with_follows,
                   requester_pubkey   |-> pk]
    /\ started' = TRUE
    /\ UNCHANGED <<cls, task, requests>>

KWebappHeavyLoadUser_on_start ==
    /\ ~started
    /\ "KWebappHeavyLoadUser" \in Bases(cls)
    /\ \E pk \in Choice(KWebappHeavyLoadUser_sample_pubkeys) :
          self' = [sample_pubkeys   |-> KWebappHeavyLoadUser_sample_pubkeys,
                   requester_pubkey |-> pk,
                   sample_post_ids  |-> KWebappHeavyLoadUser_sample_post_ids]
    /\ started' = TRUE
    /\ UNCHANGED <<cls, task, requests>>

KWebappRealisticUser_on_start ==
    /\ ~started
    /\ "KWebappRealisticUser" \in Bases(cls)
    /\ \E pk \in Choice(KWebappRealisticUser_sample_pubkeys) :
          self' = [sample_pubkeys     |-> KWebappRealisticUser_sample_pubkeys,
                   users_with_follows |-> KWebappRealisticUser_users_with_follows,
                   requester_pubkey   |-> pk,
                   sample_post_ids    |-> KWebappRealisticUser_sample_post_ids,
                   session_posts      |-> <<>>]
    /\ started' = TRUE
    /\ UNCHANGED <<cls, task, requests>>

----------------------------------------------------------------------------
\* Tasks of KWebappAPIUser

get_posts_watching ==
    /\ started
    /\ "KWebappAPIUser" \in Bases(cls)
    /\ \E limit \in randint(10, 50), before \in BeforeChoices, status \in StatusCodes :
          /\ task' = "get_posts_watching"
          /\ requests' =
               <<Get("/get-posts-watching",
                     WithBefore([requesterPubkey |-> self.requester_pubkey,
                                 limit |-> limit], before),
                     status, Unread, Only200(status))>>
    /\ UNCHANGED <<cls, started, self>>

get_content_following ==
    /\ started
    /\ "KWebappAPIUser" \in Bases(cls)
    /\ \E pk \in Choice(self.users_with_follows), limit \in randint(10, 50),
          before \in BeforeChoices, status \in StatusCodes :
          /\ task' = "get_content_following"
          /\ requests' =
               <<Get("/get-content-following",
                     WithBefore([requesterPubkey |-> pk, limit |-> limit], before),
                     status, Unread, Allow404(status))>>
    /\ UNCHANGED <<cls, started, self>>

\* get_mentions with the pubkey drawn for 'user' sent as requesterPubkey too
get_mentions_UserAsRequester ==
    /\ started
    /\ "KWebappAPIUser" \in Bases(cls)
    /\ \E user \in Choice(self.sample_pubkeys), limit \in randint(10, 30),
          before \in BeforeChoices, status \in StatusCodes :
          /\ task' = "get_mentions"
          /\ requests' =
               <<Get("/get-mentions",
                     WithBefore([user |-> user,
                                 requesterPubkey |-> user,
                                 limit |-> limit], before),
                     status, Unread, Only200(status))>>
    /\ UNCHANGED <<cls, started, self>>

get_mentions ==
    /\ started
    /\ "KWebappAPIUser" \in Bases(cls)
    /\ \E user \in Choice(self.sample_pubkeys), limit \in randint(10, 30),
          before \in BeforeChoices, status \in StatusCodes :
          /\ task' = "get_mentions"
          /\ requests' =
               <<Get("/get-mentions",
                     WithBefore([user |-> user,
                                 requesterPubkey |-> self.requester_pubkey,
                                 limit |-> limit], before),
                     status, Unread, Only200(status))>>
    /\ UNCHANGED <<cls, started, self>>

get_notifications ==
    /\ started
    /\ "KWebappAPIUser" \in Bases(cls)
    /\ \E user \in Choice(self.sample_pubkeys), limit \in randint(10, 30),
          before \in BeforeChoices, status \in StatusCodes :
          /\ task' = "get_notifications"
          /\ requests' =
               <<Get("/get-notifications",
                     WithBefore([user |-> user,
                                 requesterPubkey |-> self.requester_pubkey,
                                 limit |-> limit], before),
                     status, Unread, Only200(status))>>
    /\ UNCHANGED <<cls, started, self>>

get_notification_count ==
    /\ started
    /\ "KWebappAPIUser" \in Bases(cls)
    /\ \E user \in Choice(self.sample_pubkeys), status \in StatusCodes :
          /\ task' = "get_notification_count"
          /\ requests' =
               <<Get("/get-notification-count",
                     [user |-> user, requesterPubkey |-> self.requester_pubkey],
                     status, Unread, Allow404(status))>>
    /\ UNCHANGED <<cls, started, self>>

get_users ==
    /\ started
    /\ "KWebappAPIUser" \in Bases(cls)
    /\ \E limit \in randint(10, 100), before \in BeforeChoices, status \in StatusCodes :
          /\ task' = "get_users"
          /\ requests' =
               <<Get("/get-users",
                     WithBefore([requesterPubkey |-> self.requester_pubkey,
                                 limit |-> limit], before),
                     status, Unread, Only200(status))>>
    /\ UNCHANGED <<cls, started, self>>

get_posts ==
    /\ started
    /\ "KWebappAPIUser" \in Bases(cls)
    /\ \E user \in Choice(self.sample_pubkeys), limit \in randint(10, 50),
          before \in BeforeChoices, status \in StatusCodes :
          /\ task' = "get_posts"
          /\ requests' =
               <<Get("/get-posts",
                     WithBefore([user |-> user,
                                 requesterPubkey |-> self.requester_pubkey,
                                 limit |-> limit], before),
                     status, Unread, Only200(status))>>
    /\ UNCHANGED <<cls, started, self>>

get_replies_by_post ==
    /\ started
    /\ "KWebappAPIUser" \in Bases(cls)
    /\ \E post \in Choice(self.sample_post_ids), limit \in randint(10, 30),
          before \in BeforeChoices, status \in StatusCodes :
          /\ task' = "get_replies_by_post"
          /\ requests' =
               <<Get("/get-replies",
                     WithBefore([post |-> post,
                                 requesterPubkey |-> self.requester_pubkey,
                                 limit |-> limit], before),
                     status, Unread, Only200(status))>>
    /\ UNCHANGED <<cls, started, self>>

get_replies_by_user ==
    /\ started
    /\ "KWebappAPIUser" \in Bases(cls)
    /\ \E user \in Choice(self.sample_pubkeys), limit \in randint(10, 30),
          before \in BeforeChoices, status \in StatusCodes :
          /\ task' = "get_replies_by_user"
          /\ requests' =
               <<Get("/get-replies",
                     WithBefore([user |-> user,
                                 requesterPubkey |-> self.requester_pubkey,
                                 limit |-> limit], before),
                     status, Unread, Only200(status))>>
    /\ UNCHANGED <<cls, started, self>>

get_post_details ==
    /\ started
    /\ "KWebappAPIUser" \in Bases(cls)
    /\ \E id \in Choice(self.sample_post_ids), status \in StatusCodes :
          /\ task' = "get_post_details"
          /\ requests' =
               <<Get("/get-post-details",
                     [id |-> id, requesterPubkey |-> self.requester_pubkey],
                     status, Unread, Only200(status))>>
    /\ UNCHANGED <<cls, started, self>>

get_user_details ==
    /\ started
    /\ "KWebappAPIUser" \in Bases(cls)
    /\ \E user \in Choice(self.sample_pubkeys), status \in StatusCodes :
          /\ task' = "get_user_details"
          /\ requests' =
               <<Get("/get-user-details",
                     [user |-> user, requesterPubkey |-> self.requester_pubkey],
                     status, Unread, Only200(status))>>
    /\ UNCHANGED <<cls, started, self>>

get_blocked_users ==
    /\ started
    /\ "KWebappAPIUser" \in Bases(cls)
    /\ \E limit \in randint(10, 50), before \in BeforeChoices, status \in StatusCodes :
          /\ task' = "get_blocked_users"
          /\ requests' =
               <<Get("/get-blocked-users",
                     WithBefore([requesterPubkey |-> self.requester_pubkey,
                                 limit |-> limit], before),
                     status, Unread, Only200(status))>>
    /\ UNCHANGED <<cls, started, self>>

get_followed_users ==
    /\ started
    /\ "KWebappAPIUser" \in Bases(cls)
    /\ \E pk \in Choice(self.users_with_follows), limit \in randint(10, 50),
          before \in BeforeChoices, status \in StatusCodes :
          /\ task' = "get_followed_users"
          /\ requests' =
               <<Get("/get-followed-users",
                     WithBefore([requesterPubkey |-> pk, limit |-> limit], before),
                     status, Unread, Only200(status))>>
    /\ UNCHANGED <<cls, started, self>>

test_health_endpoint ==
    /\ started
    /\ "KWebappAPIUser" \in Bases(cls)
    /\ \E status \in StatusCodes :
          /\ task' = "test_health_endpoint"
          /\ requests' = <<Get("/health", <<>>, status, Unread, Only200(status))>>
    /\ UNCHANGED <<cls, started, self>>

----------------------------------------------------------------------------
\* Tasks of KWebappHeavyLoadUser

rapid_posts_watching ==
    /\ started
    /\ "KWebappHeavyLoadUser" \in Bases(cls)
    /\ \E status \in StatusCodes :
          /\ task' = "rapid_posts_watching"
          /\ requests' =
               <<Get("/get-posts-watching",
                     [requesterPubkey |-> self.requester_pubkey, limit |-> 100],
                     status, Unread, Only200(status))>>
    /\ UNCHANGED <<cls, started, self>>

\* PaginationRequest asking another endpoint for the pages after the first
PaginationRequest_OtherPath(base_params, timestamp, n, status) ==
    Get(IF timestamp = Epoch - 3600 THEN "/get-posts-watching" ELSE "/get-posts",
        base_params @@ [before |-> [ts |-> timestamp, n |-> n]],
        status, Unread, Only200(status))

\* one pass of "for timestamp in timestamps:"
PaginationRequest(base_params, timestamp, n, status) ==
    Get("/get-posts-watching",
        base_params @@ [before |-> [ts |-> timestamp, n |-> n]],
        status, Unread, Only200(status))

\* the three readings of time.time() that build the timestamps list, one
\* after the other: the first at Epoch, none earlier than the one before it,
\* the clock passing at most one full second in between
ClockReadings ==
    {<<Epoch, Epoch, Epoch>>, <<Epoch, Epoch, Epoch + 1>>,
     <<Epoch, Epoch + 1, Epoch + 1>>}

\* the three draws of random.randint(1, 1000) of one execution, one per pass
\* of the loop, alternating between the two ends of the range
SuffixDraws == {<<1, 1000, 1>>, <<1000, 1, 1000>>}

\* Timestamps with the first offset pasted into all three entries
Timestamps_OneOffset(now) ==
    <<now[1] - 3600, now[2] - 3600, now[3] - 3600>>

\* timestamps = [int(time.time() * 1000000) - 3600000000,
\*               int(time.time() * 1000000) - 7200000000,
\*               int(time.time() * 1000000) - 10800000000]
Timestamps(now) ==
    <<now[1] - 3600, now[2] - 7200, now[3] - 10800>>

rapid_pagination_test ==
    /\ started
    /\ "KWebappHeavyLoadUser" \in Bases(cls)
    /\ \E now \in ClockReadings :
          LET base_params == [requesterPubkey |-> self.requester_pubkey, limit |-> 50]
              timestamps  == Timestamps(now)
          IN  \E ns \in SuffixDraws, statuses \in [1..3 -> StatusCodes] :
                 /\ task' = "rapid_pagination_test"
                 /\ requests' =
                      [i \in 1..3 |->
                         PaginationRequest(base_params, timestamps[i], ns[i], statuses[i])]
    /\ UNCHANGED <<cls, started, self>>

----------------------------------------------------------------------------
\* Tasks of KWebappRealisticUser

\* the slice left out: every post of the page is read
TakeFirst_WholePage == MaxPosts

\* data['posts'][:3]
TakeFirst == 3

\* a post of a following feed, as the loop body sees it:
\*   with_id        an object with an 'id' member: its id is appended
\*   without_id     an object, array or string in which 'id' is not found
\*   not_container  a number, true, false or null, on which "'id' in post"
\*                  raises (as post['id'] does on an array or string in which
\*                  'id' is found)
WithId(x) == [type |-> "with_id", id |-> x]
WithoutId == [type |-> "without_id", id |-> ""]
NotContainer == [type |-> "not_container", id |-> ""]

\* the following feed the server holds; a 'posts' list is a page of it
ServerFeed ==
    <<WithoutId, WithId(FallbackPostId), WithId(UnlistedPostId),
      WithId(FallbackPostId), WithId(UnlistedPostId), NotContainer,
      WithId(FallbackPostId)>>

\* the non-empty pages of at most MaxPosts consecutive posts
Pages ==
    {SubSeq(ServerFeed, i, i + k - 1) :
        <<i, k>> \in {ik \in (1..Len(ServerFeed)) \X (1..MaxPosts) :
                          ik[1] + ik[2] - 1 <= Len(ServerFeed)}}

\* the bodies of a 200 answer to /get-content-following, as the try block
\* sees them:
\*   not_json             response.json() raises
\*   not_container        a number, true, false or null: "'posts' in data" raises
\*   no_posts             'posts' is not in data
\*   posts_falsy          data['posts'] is [], null, 0, "" or {}
\*   posts_not_sliceable  data['posts'] is truthy and cannot be sliced
\*   posts_list           data['posts'] is a non-empty list (a non-empty string
\*                        is read as a list of posts without id)
Bodies ==
    {[shape |-> s, posts |-> <<>>] :
        s \in {"not_json", "not_container", "no_posts", "posts_falsy",
               "posts_not_sliceable"}} \cup
    {[shape |-> "posts_list", posts |-> p] :
        p \in Pages}

\* for post in data['posts'][:3]:
\*     if 'id' in post:
\*         self.session_posts.append(post['id'])
\* from the i-th post on; raised tells whether the loop ended in an exception
RECURSIVE StorePostIds(_, _, _)
StorePostIds(session_posts, posts, i) ==
    IF i > Min(Len(posts), TakeFirst)
    THEN [session_posts |-> session_posts, raised |-> FALSE]
    ELSE IF posts[i].type = "not_container"
    THEN [session_posts |-> session_posts, raised |-> TRUE]
    ELSE IF posts[i].type = "with_id"
    THEN StorePostIds(Append(session_posts, posts[i].id), posts, i + 1)
    ELSE StorePostIds(session_posts, posts, i + 1)

\* TryBlock undoing its appends when the loop raises
TryBlock_Rollback(session_posts, body) ==
    IF body.shape \in {"not_json", "not_container", "posts_not_sliceable"}
    THEN [session_posts |-> session_posts, raised |-> TRUE]
    ELSE IF body.shape \in {"no_posts", "posts_falsy"}
    THEN [session_posts |-> session_posts, raised |-> FALSE]
    ELSE LET t == StorePostIds(session_posts, body.posts, 1)
         IN  IF t.raised
             THEN [session_posts |-> session_posts, raised |-> TRUE]
             ELSE t

\* the statements of the try block before response.success()
TryBlock(session_posts, body) ==
    IF body.shape \in {"not_json", "not_container", "posts_not_sliceable"}
    THEN [session_posts |-> session_posts, raised |-> TRUE]
    ELSE IF body.shape \in {"no_posts", "posts_falsy"}
    THEN [session_posts |-> session_posts, raised |-> FALSE]
    ELSE StorePostIds(session_posts, body.posts, 1)

\* FollowingFeedResponse with an except clause that only swallows the error
FollowingFeedResponse_SilentExcept(session_posts, status, body) ==
    IF status = 200
    THEN LET t == TryBlock(session_posts, body)
         IN  [session_posts |-> t.session_posts,
              calls |-> IF t.raised THEN <<>> ELSE <<"success">>]
    ELSE IF status = 404
    THEN [session_posts |-> session_posts, calls |-> <<"success">>]
    ELSE [session_posts |-> session_posts, calls |-> <<"failure">>]

\* the with-block of browse_following_feed
FollowingFeedResponse(session_posts, status, body) ==
    IF status = 200
    THEN LET t == TryBlock(session_posts, body)
         IN  [session_posts |-> t.session_posts,
              calls |-> (IF t.raised THEN <<>> ELSE <<"success">>)     \* try
                        \o (IF t.raised THEN <<"success">> ELSE <<>>)] \* except
    ELSE IF status = 404
    THEN [session_posts |-> session_posts, calls |-> <<"success">>]
    ELSE [session_posts |-> session_posts, calls |-> <<"failure">>]

browse_following_feed ==
    /\ started
    /\ "KWebappRealisticUser" \in Bases(cls)
    /\ \E pk \in Choice(self.users_with_follows), limit \in Choice(<<10, 20, 30>>),
          status \in StatusCodes :
          \E body \in (IF status = 200 THEN Bodies ELSE {Unread}) :
             LET r == FollowingFeedResponse(self.session_posts, status, body)
             IN  /\ Len(r.session_posts) <= MaxSessionPosts
                 /\ task' = "browse_following_feed"
                 /\ requests' =
                      <<Get("/get-content-following",
                            [requesterPubkey |-> pk, limit |-> limit],
                            status, body, r.calls)>>
                 /\ self' = [self EXCEPT !.session_posts = r.session_posts]
    /\ UNCHANGED <<cls, started>>

browse_watching_feed ==
    /\ started
    /\ "KWebappRealisticUser" \in Bases(cls)
    /\ \E limit \in Choice(<<20, 30, 40>>), status \in StatusCodes :
          /\ task' = "browse_watching_feed"
          /\ requests' =
               <<Get("/get-posts-watching",
                     [requesterPubkey |-> self.requester_pubkey, limit |-> limit],
                     status, Unread, Only200(status))>>
    /\ UNCHANGED <<cls, started, self>>

check_notifications ==
    /\ started
    /\ "KWebappRealisticUser" \in Bases(cls)
    /\ \E status \in StatusCodes :
          /\ task' = "check_notifications"
          /\ requests' =
               <<Get("/get-notifications",
                     [user |-> self.requester_pubkey,
                      requesterPubkey |-> self.requester_pubkey, limit |-> 20],
                     status, Unread, Only200(status))>>
    /\ UNCHANGED <<cls, started, self>>

check_mentions ==
    /\ started
    /\ "KWebappRealisticUser" \in Bases(cls)
    /\ \E status \in StatusCodes :
          /\ task' = "check_mentions"
          /\ requests' =
               <<Get("/get-mentions",
                     [user |-> self.requester_pubkey,
                      requesterPubkey |-> self.requester_pubkey, limit |-> 20],
                     status, Unread, Only200(status))>>
    /\ UNCHANGED <<cls, started, self>>

\* PostIdChoices with the fallback among the choices at all times
PostIdChoices_FallbackToo(session_posts) ==
    {session_posts[i] : i \in 1..Len(session_posts)} \cup {FallbackPostId}

\* PostIdChoices with a fallback literal that is none of the sample post ids
PostIdChoices_OtherFallback(session_posts) ==
    IF session_posts # <<>>
    THEN {session_posts[i] : i \in 1..Len(session_posts)}
    ELSE {UnlistedPostId}

\* if self.session_posts: post_id = random.choice(self.session_posts)
\* else: post_id = "40dfcb...d2bf"
PostIdChoices(session_posts) ==
    IF session_posts # <<>>
    THEN {session_posts[i] : i \in 1..Len(session_posts)}
    ELSE {FallbackPostId}

\* view_post_details taking the viewed post out of session_posts
view_post_details_Consumes ==
    /\ started
    /\ "KWebappRealisticUser" \in Bases(cls)
    /\ \E post_id \in PostIdChoices(self.session_posts), status \in StatusCodes :
          /\ task' = "view_post_details"
          /\ requests' =
               <<Get("/get-post-details",
                     [id |-> post_id, requesterPubkey |-> self.requester_pubkey],
                     status, Unread, Only200(status))>>
          /\ self' = [self EXCEPT !.session_posts =
                                     SelectSeq(@, LAMBDA x : x # post_id)]
    /\ UNCHANGED <<cls, started>>

view_post_details ==
    /\ started
    /\ "KWebappRealisticUser" \in Bases(cls)
    /\ \E post_id \in PostIdChoices(self.session_posts), status \in StatusCodes :
          /\ task' = "view_post_details"
          /\ requests' =
               <<Get("/get-post-details",
                     [id |-> post_id, requesterPubkey |-> self.requester_pubkey],
                     status, Unread, Only200(status))>>
    /\ UNCHANGED <<cls, started, self>>

browse_user_discovery ==
    /\ started
    /\ "KWebappRealisticUser" \in Bases(cls)
    /\ \E limit \in Choice(<<20, 50>>), status \in StatusCodes :
          /\ task' = "browse_user_discovery"
          /\ requests' =
               <<Get("/get-users",
                     [requesterPubkey |-> self.requester_pubkey, limit |-> limit],
                     status, Unread, Only200(status))>>
    /\ UNCHANGED <<cls, started, self>>

check_own_posts ==
    /\ started
    /\ "KWebappRealisticUser" \in Bases(cls)
    /\ \E status \in StatusCodes :
          /\ task' = "check_own_posts"
          /\ requests' =
               <<Get("/get-posts",
                     [user |-> self.requester_pubkey,
                      requesterPubkey |-> self.requester_pubkey, limit |-> 20],
                     status, Unread, Only200(status))>>
    /\ UNCHANGED <<cls, started, self>>

view_user_profile ==
    /\ started
    /\ "KWebappRealisticUser" \in Bases(cls)
    /\ \E user \in Choice(self.sample_pubkeys), status \in StatusCodes :
          /\ task' = "view_user_profile"
          /\ requests' =
               <<Get("/get-user-details",
                     [user |-> user, requesterPubkey |-> self.requester_pubkey],
                     status, Unread, Only200(status))>>
    /\ UNCHANGED <<cls, started, self>>

----------------------------------------------------------------------------
Next ==
    \/ KWebappAPIUser_on_start
    \/ KWebappHeavyLoadUser_on_start
    \/ KWebappRealisticUser_on_start
    \/ get_posts_watching
    \/ get_content_following
    \/ get_mentions
    \/ get_notifications
    \/ get_notification_count
    \/ get_users
    \/ get_posts
    \/ get_replies_by_post
    \/ get_replies_by_user
    \/ get_post_details
    \/ get_user_details
    \/ get_blocked_users
    \/ get_followed_users
    \/ test_health_endpoint
    \/ rapid_posts_watching
    \/ rapid_pagination_test
    \/ browse_following_feed
    \/ browse_watching_feed
    \/ check_notifications
    \/ check_mentions
    \/ view_post_details
    \/ browse_user_discovery
    \/ check_own_posts
    \/ view_user_profile

Spec == Init /\ [][Next]_vars

----------------------------------------------------------------------------
\* Properties

\* the requests of the task that ran last
Reqs == {requests[i] : i \in 1..Len(requests)}

\* the tasks whose with-block has an "elif response.status_code == 404" branch
TolerantTasks ==
    {"get_content_following", "get_notification_count", "browse_following_feed"}

\* C1: in every task other than get_content_following, get_notification_count
\* and browse_following_feed, a request is marked success exactly when its
\* status code is 200 and marked failure for every other status, 404 included.
C1_Only200Succeeds ==
    task \notin TolerantTasks =>
        \A r \in Reqs :
            /\ (r.status = 200) <=> (r.calls = <<"success">>)
            /\ (r.status # 200) <=> (r.calls = <<"failure">>)

C1_Witness ==
    /\ task = "get_followed_users"
    /\ requests[1].status = 404
    /\ requests[1].calls = <<"failure">>

\* C2: get_content_following, get_notification_count and
\* browse_following_feed mark a request success exactly when its status code
\* is 200 or 404 and failure otherwise; no other task marks a 404 success.
C2_ThreeTasksTolerate404 ==
    \A r \in Reqs :
        /\ task \in TolerantTasks =>
              /\ (r.status \in {200, 404}) <=> (r.calls = <<"success">>)
              /\ (r.status \notin {200, 404}) <=> (r.calls = <<"failure">>)
        /\ (r.status = 404 /\ r.calls = <<"success">>) => task \in TolerantTasks

C2_Witness ==
    /\ task = "get_notification_count"
    /\ requests[1].status = 404
    /\ requests[1].calls = <<"success">>

\* the entries of a list
Elems(xs) == {xs[i] : i \in 1..Len(xs)}

\* the request parameters that carry an identifier
IdParams == {"requesterPubkey", "user", "post", "id"}

\* the identifiers written out in the on_start and the tasks of class c
SampleIds(c) ==
    IF "KWebappAPIUser" \in Bases(c)
    THEN Elems(KWebappAPIUser_sample_pubkeys)
         \cup Elems(KWebappAPIUser_users_with_follows)
         \cup Elems(KWebappAPIUser_sample_post_ids)
    ELSE IF "KWebappHeavyLoadUser" \in Bases(c)
    THEN Elems(KWebappHeavyLoadUser_sample_pubkeys)
         \cup Elems(KWebappHeavyLoadUser_sample_post_ids)
    ELSE Elems(KWebappRealisticUser_sample_pubkeys)
         \cup Elems(KWebappRealisticUser_users_with_follows)
         \cup Elems(KWebappRealisticUser_sample_post_ids)
         \cup {FallbackPostId}

\* C3 as stated: every identifier sent in a request is one of the hardcoded
\* sample identifiers of the session's profile.
C3_OnlySampleIds ==
    \A r \in Reqs :
        \A k \in DOMAIN r.params \cap IdParams : r.params[k] \in SampleIds(cls)

\* C3 as amended: every identifier sent in a request is one of the hardcoded
\* sample identifiers of the session's profile, except the 'id' of
\* view_post_details, which may also be any id held in session_posts.
C3_SampleOrSessionIds ==
    \A r \in Reqs :
        \A k \in DOMAIN r.params \cap IdParams :
            \/ r.params[k] \in SampleIds(cls)
            \/ /\ task = "view_post_details"
               /\ k = "id"
               /\ r.params[k] \in Elems(self.session_posts)

C3_Witness ==
    /\ task = "view_post_details"
    /\ requests[1].params.id = UnlistedPostId
    /\ UnlistedPostId \notin SampleIds(cls)
    /\ requests[1].params.requesterPubkey \in SampleIds(cls)

\* C4 as stated: once on_start has finished, no task changes any attribute
\* of the user.
C4_NoAttributeChanges ==
    [][started => self' = self]_vars

\* C4 as amended: once on_start has finished, no task adds or removes an
\* attribute or changes sample_pubkeys, sample_post_ids, users_with_follows
\* or requester_pubkey; session_posts is changed by browse_following_feed
\* only.
C4_OnlySessionPostsChanges ==
    [][started =>
          /\ DOMAIN self' = DOMAIN self
          /\ \A a \in DOMAIN self \ {"session_posts"} : self'[a] = self[a]
          /\ self' # self => task' = "browse_following_feed"]_vars

C4_Witness ==
    /\ task = "browse_following_feed"
    /\ self.session_posts # <<>>
    /\ self.sample_pubkeys = KWebappRealisticUser_sample_pubkeys
    /\ self.sample_post_ids = KWebappRealisticUser_sample_post_ids
    /\ self.users_with_follows = KWebappRealisticUser_users_with_follows

\* the read endpoints
Endpoints ==
    {"/get-posts-watching", "/get-content-following", "/get-mentions",
     "/get-notifications", "/get-notification-count", "/get-users",
     "/get-posts", "/get-replies", "/get-post-details", "/get-user-details",
     "/get-blocked-users", "/get-followed-users", "/health"}

\* the one path of each task
TaskPath ==
    [get_posts_watching     |-> "/get-posts-watching",
     get_content_following  |-> "/get-content-following",
     get_mentions           |-> "/get-mentions",
     get_notifications      |-> "/get-notifications",
     get_notification_count |-> "/get-notification-count",
     get_users              |-> "/get-users",
     get_posts              |-> "/get-posts",
     get_replies_by_post    |-> "/get-replies",
     get_replies_by_user    |-> "/get-replies",
     get_post_details       |-> "/get-post-details",
     get_user_details       |-> "/get-user-details",
     get_blocked_users      |-> "/get-blocked-users",
     get_followed_users     |-> "/get-followed-users",
     test_health_endpoint   |-> "/health",
     rapid_posts_watching   |-> "/get-posts-watching",
     rapid_pagination_test  |-> "/get-posts-watching",
     browse_following_feed  |-> "/get-content-following",
     browse_watching_feed   |-> "/get-posts-watching",
     check_notifications    |-> "/get-notifications",
     check_mentions         |-> "/get-mentions",
     view_post_details      |-> "/get-post-details",
     browse_user_discovery  |-> "/get-users",
     check_own_posts        |-> "/get-posts",
     view_user_profile      |-> "/get-user-details"]

\* C5: every request of every task is a GET to one of the thirteen read
\* endpoints, and whatever a task draws and whatever state the session is in,
\* all requests of that task go to one and the same path.
C5_FixedEndpointPerTask ==
    task # "" =>
        /\ requests # <<>>
        /\ \A r \in Reqs :
              /\ r.method = "GET"
              /\ r.path \in Endpoints
              /\ r.path = TaskPath[task]

C5_Witness ==
    /\ task = "rapid_pagination_test"
    /\ Len(requests) = 3
    /\ \A r \in Reqs : r.method = "GET" /\ r.path = "/get-posts-watching"

\* C6: a started WebsiteUser session can execute every task that
\* KWebappAPIUser, KWebappHeavyLoadUser and KWebappRealisticUser define.
C6_WebsiteUserRunsEveryTask ==
    (cls = "WebsiteUser" /\ started) =>
        /\ ENABLED get_posts_watching
        /\ ENABLED get_content_following
        /\ ENABLED get_mentions
        /\ ENABLED get_notifications
        /\ ENABLED get_notification_count
        /\ ENABLED get_users
        /\ ENABLED get_posts
        /\ ENABLED get_replies_by_post
        /\ ENABLED get_replies_by_user
        /\ ENABLED get_post_details
        /\ ENABLED get_user_details
        /\ ENABLED get_blocked_users
        /\ ENABLED get_followed_users
        /\ ENABLED test_health_endpoint
        /\ ENABLED rapid_posts_watching
        /\ ENABLED rapid_pagination_test
        /\ ENABLED browse_following_feed
        /\ ENABLED browse_watching_feed
        /\ ENABLED check_notifications
        /\ ENABLED check_mentions
        /\ ENABLED view_post_details
        /\ ENABLED browse_user_discovery
        /\ ENABLED check_own_posts
        /\ ENABLED view_user_profile

\* C7: on every request exactly one call is made on the response object,
\* either success() or failure(), whatever the status code and, in
\* browse_following_feed, whatever the body.
C7_ClassifiedExactlyOnce ==
    \A r \in Reqs :
        /\ Len(r.calls) = 1
        /\ r.calls[1] \in {"success", "failure"}

C7_Witness ==
    /\ task = "browse_following_feed"
    /\ requests[1].status = 200
    /\ requests[1].body.shape = "not_json"
    /\ requests[1].calls = <<"success">>

\* the first three posts of a page
FirstThree(posts) == SubSeq(posts, 1, IF Len(posts) < 3 THEN Len(posts) ELSE 3)

\* the ids of the posts of ps that have one, in order
IdsOf(ps) ==
    LET withId == SelectSeq(ps, LAMBDA p : p.type = "with_id")
    IN  [i \in 1..Len(withId) |-> withId[i].id]

\* the posts of ps before the first one the membership test fails on
BeforeFirstFailure(ps) ==
    IF \E i \in 1..Len(ps) : ps[i].type = "not_container"
    THEN SubSeq(ps, 1,
                (CHOOSE i \in 1..Len(ps) :
                    /\ ps[i].type = "not_container"
                    /\ \A j \in 1..(i - 1) : ps[j].type # "not_container") - 1)
    ELSE ps

\* reading this body raises an exception
ReadRaises(body) ==
    \/ body.shape \in {"not_json", "not_container", "posts_not_sliceable"}
    \/ /\ body.shape = "posts_list"
       /\ \E i \in 1..Len(FirstThree(body.posts)) :
              body.posts[i].type = "not_container"

\* C8: when browse_following_feed gets a 200 answer whose body is not valid
\* JSON or raises while it is read, the request is still marked success, and
\* session_posts is what it was before followed by the ids appended before
\* the exception.
C8_SuccessDespiteException ==
    [][(/\ started
        /\ task' = "browse_following_feed"
        /\ requests'[1].status = 200
        /\ ReadRaises(requests'[1].body))
       => /\ requests'[1].calls = <<"success">>
          /\ self'.session_posts =
                self.session_posts
                \o IdsOf(BeforeFirstFailure(FirstThree(requests'[1].body.posts)))]_vars

C8_Witness ==
    /\ task = "browse_following_feed"
    /\ requests[1].status = 200
    /\ requests[1].calls = <<"success">>
    /\ requests[1].body.shape = "posts_list"
    /\ Len(requests[1].body.posts) >= 3
    /\ requests[1].body.posts[1].type = "with_id"
    /\ requests[1].body.posts[2].type = "not_container"
    /\ requests[1].body.posts[3].type = "with_id"
    /\ Len(self.session_posts) >= 2
    /\ self.session_posts[Len(self.session_posts)] = requests[1].body.posts[1].id

\* C9 as stated: session_posts starts empty; browse_following_feed on a 200
\* answer with a non-empty 'posts' list appends, in order, the ids of those
\* of the first three posts that have one; every other step leaves
\* session_posts as it is.
C9_AppendsIdsOfFirstThree ==
    [][/\ (~started /\ "session_posts" \in DOMAIN self') => self'.session_posts = <<>>
       /\ (started /\ "session_posts" \in DOMAIN self) =>
             IF /\ task' = "browse_following_feed"
                /\ requests'[1].status = 200
                /\ requests'[1].body.shape = "posts_list"
             THEN self'.session_posts =
                     self.session_posts \o IdsOf(FirstThree(requests'[1].body.posts))
             ELSE self'.session_posts = self.session_posts]_vars

\* C9 as amended: session_posts starts empty; browse_following_feed on a 200
\* answer with a non-empty 'posts' list appends, in order, the ids of those
\* of the first three posts that have one, up to the first of the three whose
\* reading raises an exception; every other step leaves session_posts as it
\* is.
C9_AppendsIdsUntilException ==
    [][/\ (~started /\ "session_posts" \in DOMAIN self') => self'.session_posts = <<>>
       /\ (started /\ "session_posts" \in DOMAIN self) =>
             IF /\ task' = "browse_following_feed"
                /\ requests'[1].status = 200
                /\ requests'[1].body.shape = "posts_list"
             THEN /\ self'.session_posts =
                        self.session_posts
                        \o IdsOf(BeforeFirstFailure(FirstThree(requests'[1].body.posts)))
                  /\ Len(self'.session_posts) - Len(self.session_posts) <= 3
             ELSE self'.session_posts = self.session_posts]_vars

C9_Witness ==
    /\ task = "browse_following_feed"
    /\ requests[1].status = 200
    /\ Len(requests[1].body.posts) = 4
    /\ requests[1].body.posts[4].type = "with_id"
    /\ Len(self.session_posts) = 3
    /\ self.session_posts = IdsOf(FirstThree(requests[1].body.posts))

\* C10: view_post_details sends the fallback id when session_posts is empty
\* and an element of session_posts otherwise, and session_posts never becomes
\* empty again: once an id is stored, the fallback is sent only if it is one
\* of the stored ids.
C10_FallbackOnlyWhenEmpty ==
    [][(started /\ "session_posts" \in DOMAIN self) =>
          /\ task' = "view_post_details" =>
                IF self.session_posts = <<>>
                THEN requests'[1].params.id = FallbackPostId
                ELSE requests'[1].params.id \in Elems(self.session_posts)
          /\ self.session_posts # <<>> => self'.session_posts # <<>>]_vars

C10_Witness ==
    /\ task = "view_post_details"
    /\ self.session_posts # <<>>
    /\ FallbackPostId \notin Elems(self.session_posts)
    /\ requests[1].params.id \in Elems(self.session_posts)

\* C11: one execution of rapid_pagination_test issues exactly three requests,
\* each a GET of /get-posts-watching with limit 50 and the session's
\* requester_pubkey, the i-th with a 'before' timestamp i hours before the
\* execution (to the second the clock may pass while the list is built), the
\* timestamps strictly decreasing; each request is marked on its own status,
\* and all three are issued whatever the earlier ones returned.
C11_PaginationSequence ==
    task = "rapid_pagination_test" =>
        /\ Len(requests) = 3
        /\ \A i \in 1..3 :
              /\ requests[i].method = "GET"
              /\ requests[i].path = "/get-posts-watching"
              /\ requests[i].params.limit = 50
              /\ requests[i].params.requesterPubkey = self.requester_pubkey
              /\ requests[i].params.before.ts \in
                    (Epoch - i * 3600)..(Epoch - i * 3600 + 1)
              /\ (requests[i].status = 200) <=> (requests[i].calls = <<"success">>)
              /\ (requests[i].status # 200) <=> (requests[i].calls = <<"failure">>)
        /\ \A i \in 1..2 :
              requests[i].params.before.ts > requests[i + 1].params.before.ts

C11_Witness ==
    /\ task = "rapid_pagination_test"
    /\ Len(requests) = 3
    /\ requests[1].status = 500
    /\ requests[1].calls = <<"failure">>
    /\ requests[2].status = 404
    /\ requests[3].status = 200
    /\ requests[3].calls = <<"success">>
    /\ requests[1].params.before.ts - requests[2].params.before.ts = 3599

\* the tasks whose requests do not carry the session's requester_pubkey
OwnRequesterTasks ==
    {"get_content_following", "get_followed_users", "browse_following_feed",
     "test_health_endpoint"}

\* C12: on_start leaves requester_pubkey an entry of the profile's
\* sample_pubkeys, no step changes it afterwards, and every request of every
\* task other than get_content_following, get_followed_users,
\* browse_following_feed and test_health_endpoint carries it as
\* requesterPubkey, so the requests of two such tasks of one session carry
\* the same requesterPubkey.
C12_SessionRequester ==
    [][ /\ started' => self'.requester_pubkey \in Elems(self'.sample_pubkeys)
        /\ started => self'.requester_pubkey = self.requester_pubkey
        /\ (started' /\ task' # "" /\ task' \notin OwnRequesterTasks) =>
              \A j \in 1..Len(requests') :
                 requests'[j].params.requesterPubkey = self'.requester_pubkey
        /\ (started /\ task # "" /\ task \notin OwnRequesterTasks
               /\ task' \notin OwnRequesterTasks) =>
              \A i \in 1..Len(requests), j \in 1..Len(requests') :
                 requests'[j].params.requesterPubkey =
                    requests[i].params.requesterPubkey
      ]_vars

C12_Witness ==
    /\ started
    /\ cls = "KWebappRealisticUser"
    /\ task = "view_post_details"
    /\ Len(self.session_posts) > 0
    /\ self.requester_pubkey = self.sample_pubkeys[2]
    /\ Len(requests) = 1
    /\ requests[1].params.requesterPubkey = self.requester_pubkey

\* the tasks that draw requesterPubkey from users_with_follows
FollowTasks ==
    {"get_content_following", "get_followed_users", "browse_following_feed"}

\* C13: in a profile that has users_with_follows, every pubkey of that list
\* is an entry of the same profile's sample_pubkeys, and the requests of
\* get_content_following, get_followed_users and browse_following_feed carry
\* an entry of users_with_follows as requesterPubkey.
C13_FollowersAmongSamples ==
    (started /\ "users_with_follows" \in DOMAIN self) =>
        /\ Elems(self.users_with_follows) \subseteq Elems(self.sample_pubkeys)
        /\ task \in FollowTasks =>
              \A i \in 1..Len(requests) :
                 requests[i].params.requesterPubkey \in
                    Elems(self.users_with_follows)

====
